---- MODULE Spec2Model ----
(***************************************************************************)
(* Model of src/app.py: the Streamlit script main() seen as a state        *)
(* machine.  Every user interaction re-runs the whole script; the only     *)
(* state that survives a run is st.session_state['extra_data'], the        *)
(* uploaded file and the widgets' values.  One action is one interaction   *)
(* followed by the complete script run it triggers.                        *)
(*                                                                         *)
(* Column labels are sequences of characters (one-character strings; the   *)
(* accented letters are the tokens "c_ced", "a_til", "e_circ"), so that    *)
(* str.lower() and the substring test `word in col_lower` are computed.    *)
(* A cell is a number, NaN or a text; a real result (mean, delta) is an    *)
(* exact fraction num/den or NaN.                                          *)
(***************************************************************************)
EXTENDS Integers, Sequences, FiniteSets, TLC

VARIABLES uploaded_file, extra_data, do_audit, sel_med, run

vars == <<uploaded_file, extra_data, do_audit, sel_med, run>>

(***************************************************************************)
(* Bounds of the explored inputs.                                          *)
(***************************************************************************)
MaxRawRows == 2
MaxEntries == 2

(***************************************************************************)
(* Values.                                                                 *)
(***************************************************************************)
None == <<>>

Num(x) == [k |-> "num", n |-> x, s |-> ""]
NaN == [k |-> "nan", n |-> 0, s |-> ""]
Str(t) == [k |-> "str", n |-> 0, s |-> t]

Rat(a, b) == [k |-> "num", num |-> a, den |-> b]
RatNaN == [k |-> "nan", num |-> 0, den |-> 1]

(***************************************************************************)
(* str.lower() and the substring test of mapear_colunas_inteligentes.      *)
(***************************************************************************)
UpperCase == <<"A","B","C","D","E","F","G","H","I","J","K","L","M","N","O",
               "P","Q","R","S","T","U","V","W","X","Y","Z",
               "C_ced","A_til","E_circ">>
LowerCase == <<"a","b","c","d","e","f","g","h","i","j","k","l","m","n","o",
               "p","q","r","s","t","u","v","w","x","y","z",
               "c_ced","a_til","e_circ">>

LowerOf ==
  [c \in {UpperCase[i] : i \in 1..Len(UpperCase)} |->
     LowerCase[CHOOSE i \in 1..Len(UpperCase) : UpperCase[i] = c]]

LowerChar(c) == IF c \in DOMAIN LowerOf THEN LowerOf[c] ELSE c

RECURSIVE Lower(_)
Lower(label) ==
  IF label = <<>> THEN <<>> ELSE <<LowerChar(Head(label))>> \o Lower(Tail(label))

\* word in text
Contains(text, word) ==
  \E i \in 0..(Len(text) - Len(word)) :
     SubSeq(text, i + 1, i + Len(word)) = word

Roles == <<"data", "medicao", "valor">>

keywords ==
  [data |-> << <<"d","a","t","a">>,
               <<"d","a","t","e">>,
               <<"p","e","r","i","o","d","o">>,
               <<"m","e","s">>,
               <<"m","e_circ","s">> >>,
   medicao |-> << <<"m","e","d","i","c","a","o">>,
                  <<"m","e","d","i","c_ced","a_til","o">>,
                  <<"q","u","a","n","t","i","d","a","d","e">>,
                  <<"q","t","y">>,
                  <<"a","m","o","u","n","t">>,
                  <<"m","e","d","i","d","o">> >>,
   valor |-> << <<"v","a","l","o","r">>,
                <<"p","r","e","c_ced","o">>,
                <<"c","u","s","t","o">>,
                <<"t","o","t","a","l">>,
                <<"p","r","i","c","e">>,
                <<"v","a","l","u","e">> >>]

\* any(word in col_lower for word in words)
AnyWord(col_lower, words) ==
  \E j \in 1..Len(words) : Contains(col_lower, words[j])

\* The inner loop `for key, words in keywords.items()` for one column: every
\* role is tested in turn, and binding one role does not end the loop.
RECURSIVE BindKeys(_, _, _, _)
BindKeys(mapping, col, col_lower, r) ==
  IF r > Len(Roles) THEN mapping
  ELSE LET key == Roles[r]
           m2 == IF mapping[key] = None /\ AnyWord(col_lower, keywords[key])
                   THEN [mapping EXCEPT ![key] = col]
                   ELSE mapping
       IN BindKeys(m2, col, col_lower, r + 1)

\* The outer loop `for col in columns`, from column i on.
RECURSIVE MapLoop(_, _, _)
MapLoop(mapping, columns, i) ==
  IF i > Len(columns) THEN mapping
  ELSE MapLoop(BindKeys(mapping, columns[i], Lower(columns[i]), 1), columns, i + 1)

mapear_colunas_inteligentes(columns) ==
  MapLoop([data |-> None, medicao |-> None, valor |-> None], columns, 1)

(***************************************************************************)
(* Uploaded files.  A file is unreadable (carregar_dados returns None) or  *)
(* holds a table: column labels and rows of cells aligned with them.       *)
(***************************************************************************)
LData == <<"D","a","t","a">>
LMedicao == <<"M","e","d","i","c_ced","a_til","o">>
LValor == <<"V","a","l","o","r">>
LItem == <<"I","t","e","m">>
LQtd == <<"Q","t","d">>
LValorMedido == <<"V","a","l","o","r"," ","M","e","d","i","d","o">>

\* Column layouts of the explored tables: labels, and what each column
\* holds ("D" a period number, "Q" a quantity, "V" a value, "T" an item code).
LayoutAll == [cols |-> <<LData, LMedicao, LValor>>, kinds |-> <<"D", "Q", "V">>]
LayoutValorOnly == [cols |-> <<LItem, LValor>>, kinds |-> <<"T", "V">>]
LayoutUnmapped == [cols |-> <<LItem, LQtd>>, kinds |-> <<"T", "Q">>]
LayoutTwoRoles == [cols |-> <<LValorMedido>>, kinds |-> <<"Q">>]
LayoutMedicaoOnly == [cols |-> <<LMedicao>>, kinds |-> <<"Q">>]

Layouts == {LayoutAll, LayoutValorOnly, LayoutTwoRoles}

RawQs == {-5, 0, 10}

\* a quantity cell of an uploaded row
RawCells == {Num(q) : q \in RawQs}

Times(c, f) == IF c.k = "num" THEN Num(c.n * f) ELSE c

RowOf(kinds, i, c) ==
  [j \in 1..Len(kinds) |->
     CASE kinds[j] = "D" -> Num(i)
       [] kinds[j] = "T" -> Num(100 + i)
       [] kinds[j] = "Q" -> c
       [] OTHER          -> Times(c, 10)]

TableOf(layout, cells) ==
  [cols |-> layout.cols,
   rows |-> [i \in 1..Len(cells) |-> RowOf(layout.kinds, i, cells[i])]]

SeqsUpTo(S, n) == UNION {[1..m -> S] : m \in 0..n}

NumCells(qs) == [i \in 1..Len(qs) |-> Num(qs[i])]

\* The worked examples, tables with empty quantity cells, and tables in
\* which no column is recognised
ExampleTables ==
  { TableOf(LayoutAll, NumCells(<<10, 20, 0>>)),
    TableOf(LayoutMedicaoOnly, NumCells(<<80>>)),
    TableOf(LayoutMedicaoOnly, NumCells(<<80, 100>>)),
    TableOf(LayoutMedicaoOnly, NumCells(<<2, 3, 3, 100>>)),
    TableOf(LayoutMedicaoOnly, NumCells(<<2, 3, 3, 3, 3, 3, 3, 300>>)),
    TableOf(LayoutMedicaoOnly, NumCells(<<-5, 3, 3, 3, 3, 3, 3, 300>>)),
    TableOf(LayoutMedicaoOnly, NumCells(<<0, 0, 0, 0, 0, 10>>)),
    TableOf(LayoutAll, <<NaN, Num(10)>>),
    TableOf(LayoutAll, <<Num(10), NaN>>),
    TableOf(LayoutAll, <<NaN>>),
    TableOf(LayoutUnmapped, <<>>),
    TableOf(LayoutUnmapped, NumCells(<<10, 0>>)) }

Tables ==
  {TableOf(l, cells) : l \in Layouts, cells \in SeqsUpTo(RawCells, MaxRawRows)}
    \cup ExampleTables

NoFile == [kind |-> "none", table |-> [cols |-> <<>>, rows |-> <<>>]]
BadFile == [kind |-> "bad", table |-> [cols |-> <<>>, rows |-> <<>>]]
GoodFile(t) == [kind |-> "ok", table |-> t]

Files == {GoodFile(t) : t \in Tables} \cup {BadFile}

\* carregar_dados: the table, or None (here: no columns) when reading raises
carregar_dados(file) ==
  IF file.kind = "ok" THEN [ok |-> TRUE, df |-> file.table]
  ELSE [ok |-> FALSE, df |-> [cols |-> <<>>, rows |-> <<>>]]

(***************************************************************************)
(* Quick-entry form (lines 97-109).                                        *)
(***************************************************************************)
Pad(n, w) == IF w = 2 /\ n < 10 THEN "0" \o ToString(n) ELSE ToString(n)

\* new_date.strftime("%Y-%m-%d")
strftime(d) == ToString(d.y) \o "-" \o Pad(d.m, 2) \o "-" \o Pad(d.d, 2)

EntryDates == {[y |-> 2024, m |-> 1, d |-> 3]}
\* number_input(min_value=0.0): no negative quantity or value can be entered
EntryQs == {0, 100}
EntryVals == {50}

new_row(new_date, new_med, new_val) ==
  [Data |-> strftime(new_date), Medicao |-> new_med, Valor |-> new_val]

\* variant: the new row replaces the session's frame instead of extending it
AppendEntryReplace(extra, row) == << row >>

\* pd.concat([st.session_state['extra_data'], new_row], ignore_index=True)
AppendEntry(extra, row) == Append(extra, row)

(***************************************************************************)
(* Reconciliation (lines 123-130).                                         *)
(***************************************************************************)
IsIn(x, s) == \E i \in 1..Len(s) : s[i] = x

IndexOf(x, s) == CHOOSE i \in 1..Len(s) : s[i] = x /\ \A j \in 1..(i - 1) : s[j] # x

NoDuplicates(s) == \A i, j \in 1..Len(s) : s[i] = s[j] => i = j

\* `mapping_temp[key] or default`
OrDefault(m, default) == IF m = None THEN default ELSE m

\* mapped_extra.columns = [...]
MappedColumns(mapping_temp) ==
  << OrDefault(mapping_temp["data"], LData),
     OrDefault(mapping_temp["medicao"], LMedicao),
     OrDefault(mapping_temp["valor"], LValor) >>

EntryCells(e) == << Str(e.Data), Num(e.Medicao), Num(e.Valor) >>

\* columns of pd.concat([a, b]): a's, then b's that a lacks, in b's order
ConcatColumns(acols, bcols) ==
  acols \o SelectSeq(bcols, LAMBDA c : ~IsIn(c, acols))

\* a row of a frame with columns fcols, reindexed to cols (NaN where missing)
RECURSIVE Reindex(_, _, _, _)
Reindex(row, fcols, cols, j) ==
  IF j > Len(cols) THEN <<>>
  ELSE << IF IsIn(cols[j], fcols) THEN row[IndexOf(cols[j], fcols)] ELSE NaN >>
         \o Reindex(row, fcols, cols, j + 1)

RECURSIVE ReindexRows(_, _, _)
ReindexRows(rows, fcols, cols) ==
  IF rows = <<>> THEN <<>>
  ELSE << Reindex(Head(rows), fcols, cols, 1) >> \o ReindexRows(Tail(rows), fcols, cols)

RECURSIVE EntryRows(_)
EntryRows(extra) ==
  IF extra = <<>> THEN <<>> ELSE << EntryCells(Head(extra)) >> \o EntryRows(Tail(extra))

\* variant: the frames concatenated in the other order
ConcatRowsSwapped(arows, brows) == brows \o arows

\* the rows of the concatenation: the first frame's, then the second's
ConcatRows(arows, brows) == arows \o brows

\* pd.concat([raw_df, mapped_extra], ignore_index=True).  Reindexing a frame
\* whose column labels repeat raises InvalidIndexError.
Concat(raw_df, ecols, erows) ==
  IF ~NoDuplicates(ecols)
    THEN [ok |-> FALSE, df |-> [cols |-> <<>>, rows |-> <<>>]]
    ELSE [ok |-> TRUE,
          df |-> [cols |-> ConcatColumns(raw_df.cols, ecols),
                  rows |-> ConcatRows(
                     ReindexRows(raw_df.rows, raw_df.cols,
                                 ConcatColumns(raw_df.cols, ecols)),
                     ReindexRows(erows, ecols,
                                 ConcatColumns(raw_df.cols, ecols)))]]

Reconcile(raw_df, extra) ==
  IF extra # <<>>
    THEN Concat(raw_df, MappedColumns(mapear_colunas_inteligentes(raw_df.cols)),
                EntryRows(extra))
    ELSE [ok |-> TRUE, df |-> raw_df]

(***************************************************************************)
(* Mapping adjustment selectboxes (lines 136-139).                         *)
(***************************************************************************)
\* index=list(df.columns).index(m) if m in df.columns else 0   (1-based here)
DefaultIndex(cols, m) == IF IsIn(m, cols) THEN IndexOf(m, cols) ELSE 1

RECURSIVE ColumnAt(_, _)
ColumnAt(rows, j) ==
  IF rows = <<>> THEN <<>> ELSE << Head(rows)[j] >> \o ColumnAt(Tail(rows), j)

\* df[col]
Column(df, col) == ColumnAt(df.rows, IndexOf(col, df.cols))

(***************************************************************************)
(* Aggregates of a column, as pandas computes them (NaN cells skipped).    *)
(***************************************************************************)
RECURSIVE SumNum(_)
SumNum(cells) ==
  IF cells = <<>> THEN 0
  ELSE (IF Head(cells).k = "num" THEN Head(cells).n ELSE 0) + SumNum(Tail(cells))

RECURSIVE CountNum(_)
CountNum(cells) ==
  IF cells = <<>> THEN 0
  ELSE (IF Head(cells).k = "num" THEN 1 ELSE 0) + CountNum(Tail(cells))

HasText(cells) == \E i \in 1..Len(cells) : cells[i].k = "str"

\* Series.sum()
ColSum(cells) == SumNum(cells)

\* variant: the mean taken over the non-zero numbers only
ColMeanActive(cells) ==
  LET active == SelectSeq(cells, LAMBDA c : c.k = "num" /\ c.n # 0)
  IN IF active = <<>> THEN RatNaN ELSE Rat(SumNum(active), Len(active))

\* Series.mean(): NaN when no number is left
ColMean(cells) ==
  IF CountNum(cells) = 0 THEN RatNaN ELSE Rat(SumNum(cells), CountNum(cells))

(***************************************************************************)
(* Smart audit layer (lines 142-155).                                      *)
(***************************************************************************)
OutlierK == 2

\* sum of the squared n * (x_i - mean), n the count and S the sum of the
\* numbers: Series.std() is the sample standard deviation (ddof = 1),
\* computed from the deviations from the mean
RECURSIVE SumDevSq(_, _, _)
SumDevSq(n, S, cells) ==
  IF cells = <<>> THEN 0
  ELSE (IF Head(cells).k = "num"
          THEN (n * Head(cells).n - S) * (n * Head(cells).n - S) ELSE 0)
         + SumDevSq(n, S, Tail(cells))

\* variant: three standard deviations
AboveThreshold3(n, S, D, x) ==
  /\ n >= 2
  /\ n * x - S > 0
  /\ (n * x - S) * (n * x - S) * (n - 1) > 9 * D

\* x > mean_med + 2 * std_med, for n numbers of sum S and squared deviations
\* D = SumDevSq: mean = S/n, std^2 = D / (n^2 * (n - 1)).  With fewer than
\* two numbers std is NaN and the comparison is False.
AboveThreshold(n, S, D, x) ==
  /\ n >= 2
  /\ n * x - S > 0
  /\ (n * x - S) * (n * x - S) * (n - 1) > OutlierK * OutlierK * D

\* df[df[col_med] > (mean_med + 2 * std_med)], as row numbers
OutlierRows(cells) ==
  LET n == CountNum(cells)
      S == SumNum(cells)
      D == SumDevSq(n, S, cells)
  IN {i \in 1..Len(cells) : cells[i].k = "num" /\ AboveThreshold(n, S, D, cells[i].n)}

\* df[df[col_med] < 0], as row numbers
NegativeRows(cells) ==
  {i \in 1..Len(cells) : cells[i].k = "num" /\ cells[i].n < 0}

Finding(kind, rows) ==
  IF rows # {} THEN << [kind |-> kind, count |-> Cardinality(rows)] >> ELSE <<>>

\* variant: the negative check skipped when outliers were found (elif)
AnomaliesElif(outliers, negatives) ==
  IF outliers # {} THEN Finding("StatisticalOutlier", outliers)
  ELSE Finding("NegativeValue", negatives)

\* the list `anomalies`: the two checks run one after the other
Anomalies(outliers, negatives) ==
  Finding("StatisticalOutlier", outliers) \o Finding("NegativeValue", negatives)

(***************************************************************************)
(* KPI section and trend (lines 167-177), comparison tool (lines 231-237). *)
(***************************************************************************)
\* variant: the change divided by the last value instead of the previous one
TrendOverLast(cells) ==
  IF Len(cells) >= 2
    THEN LET last_val == cells[Len(cells)]
             prev_val == cells[Len(cells) - 1]
         IN IF prev_val.k = "num" /\ prev_val.n = 0 THEN Rat(0, 1)
            ELSE IF prev_val.k = "num" /\ last_val.k = "num"
                   THEN Rat((last_val.n - prev_val.n) * 100, last_val.n)
                   ELSE RatNaN
    ELSE Rat(0, 1)

\* delta = ((last_val - prev_val) / prev_val) * 100 if prev_val != 0 else 0
\* over iloc[-1] and iloc[-2]; NaN != 0 is True and NaN propagates.
Trend(cells) ==
  IF Len(cells) >= 2
    THEN LET last_val == cells[Len(cells)]
             prev_val == cells[Len(cells) - 1]
         IN IF prev_val.k = "num" /\ prev_val.n = 0 THEN Rat(0, 1)
            ELSE IF prev_val.k = "num" /\ last_val.k = "num"
                   THEN Rat((last_val.n - prev_val.n) * 100, prev_val.n)
                   ELSE RatNaN
    ELSE Rat(0, 1)

\* last_val and prev_val are assigned only inside `if len(df) >= 2`
LastValBound(cells) == Len(cells) >= 2

\* value=float(last_val) if len(df) > 0 else 0.0 reads last_val when len(df) > 0
ComparisonRaises(cells) == Len(cells) > 0 /\ ~LastValBound(cells)

Blank ==
  [stage |-> "welcome",
   df |-> [cols |-> <<>>, rows |-> <<>>],
   mapping |-> [data |-> None, medicao |-> None, valor |-> None],
   col_data |-> None, col_med |-> None, col_val |-> None,
   med_default |-> 0, sel |-> 0,
   audited |-> FALSE, outliers |-> {}, negatives |-> {}, anomalies |-> <<>>,
   total_medido |-> 0, total_valor |-> 0,
   media_medicao |-> RatNaN, delta |-> RatNaN,
   c_atual |-> NaN, c_anterior |-> NaN]

\* whether a run got as far as the mapping selectboxes / the KPI section
Rendered(r) == r.stage \in {"type_error", "name_error", "done"}
HasKpi(r) == r.stage \in {"name_error", "done"}

\* The user's choice in "Coluna de Medição" lives as long as the widget keeps
\* its options and default index; otherwise the selectbox shows its default.
EffectiveSel(prev, cols, med_default, sel) ==
  IF Rendered(prev) /\ prev.df.cols = cols /\ prev.med_default = med_default
    THEN sel ELSE 0

\* lines 142-177 and 231-233 on the measurement column `med`, continuing the
\* run record r; mean() raises TypeError on a column holding text.
RunKpi(r, med, val, audit) ==
  IF HasText(med) THEN r
  ELSE
    LET outliers == IF audit THEN OutlierRows(med) ELSE {}
        negatives == IF audit THEN NegativeRows(med) ELSE {}
        r2 == [r EXCEPT !.stage = "name_error",
                 !.audited = audit,
                 !.outliers = outliers,
                 !.negatives = negatives,
                 !.anomalies = Anomalies(outliers, negatives),
                 !.total_medido = ColSum(med),
                 !.total_valor = ColSum(val),
                 !.media_medicao = ColMean(med),
                 !.delta = Trend(med)]
    IN IF ComparisonRaises(med) THEN r2
       ELSE [r2 EXCEPT !.stage = "done",
               !.c_atual = IF Len(med) > 0 THEN med[Len(med)] ELSE Num(0),
               !.c_anterior = IF Len(med) > 1 THEN med[Len(med) - 1] ELSE Num(0)]

\* lines 132-139: the mapping of the merged table and the three selectboxes
\* (col_data and col_val are left at their defaults; col_val is one of
\* df.columns, so `if col_val in df.columns` at line 168 is always True)
RunMapped(df, mapping, med_default, s, audit) ==
  RunKpi([Blank EXCEPT !.stage = "type_error", !.df = df,
            !.mapping = mapping,
            !.col_data = df.cols[DefaultIndex(df.cols, mapping["data"])],
            !.col_med = df.cols[IF s = 0 THEN med_default ELSE s],
            !.col_val = df.cols[DefaultIndex(df.cols, mapping["valor"])],
            !.med_default = med_default, !.sel = s],
         ColumnAt(df.rows, IF s = 0 THEN med_default ELSE s),
         ColumnAt(df.rows, DefaultIndex(df.cols, mapping["valor"])),
         audit)

RunMerged(rec, audit, sel, prev) ==
  IF ~rec.ok THEN [Blank EXCEPT !.stage = "concat_error"]
  ELSE LET mapping == mapear_colunas_inteligentes(rec.df.cols)
           med_default == DefaultIndex(rec.df.cols, mapping["medicao"])
       IN RunMapped(rec.df, mapping, med_default,
                    EffectiveSel(prev, rec.df.cols, med_default, sel), audit)

\* One complete run of main() (lines 118-280) for the current inputs.
Run(file, extra, audit, sel, prev) ==
  IF file.kind = "none" THEN Blank
  ELSE IF ~carregar_dados(file).ok THEN [Blank EXCEPT !.stage = "load_failed"]
  ELSE RunMerged(Reconcile(carregar_dados(file).df, extra), audit, sel, prev)

(***************************************************************************)
(* Interactions.  Each one changes an input and re-runs the script.        *)
(***************************************************************************)
Rerun(file, extra, audit, sel) ==
  /\ uploaded_file' = file
  /\ extra_data' = extra
  /\ run' = Run(file, extra, audit, sel, run)
  /\ sel_med' = run'.sel
  /\ do_audit' = audit

\* st.file_uploader: a file is put into the empty uploader; the sidebar
\* widgets appear with their defaults
Upload(file) ==
  /\ uploaded_file.kind = "none"
  /\ Rerun(file, extra_data, TRUE, 0)

\* the uploaded file is removed: the welcome screen, no sidebar widgets
RemoveFile ==
  /\ uploaded_file.kind # "none"
  /\ Rerun(NoFile, extra_data, TRUE, 0)

\* st.form_submit_button("Lançar Medição") with the form's three inputs
SubmitQuickEntry(new_date, new_med, new_val) ==
  /\ uploaded_file.kind # "none"
  /\ Len(extra_data) < MaxEntries
  /\ Rerun(uploaded_file,
           AppendEntry(extra_data, new_row(new_date, new_med, new_val)),
           do_audit, sel_med)

\* st.toggle("Auditoria Inteligente (Beta)", value=True)
ToggleAudit ==
  /\ uploaded_file.kind # "none"
  /\ Rerun(uploaded_file, extra_data, ~do_audit, sel_med)

\* st.selectbox("Coluna de Medição", df.columns, index=...)
SelectMed(i) ==
  /\ Rendered(run)
  /\ i \in 1..Len(run.df.cols)
  /\ run.df.cols[i] # run.col_med
  /\ Rerun(uploaded_file, extra_data, do_audit, i)

\* any other widget (colour, target, comparison inputs, AI button): a re-run
Rerender ==
  /\ Rerun(uploaded_file, extra_data, do_audit, sel_med)

Init ==
  /\ uploaded_file = NoFile
  /\ extra_data = <<>>
  /\ do_audit = TRUE
  /\ sel_med = 0
  /\ run = Blank

Next ==
  \/ \E file \in Files : Upload(file)
  \/ RemoveFile
  \/ \E d \in EntryDates, q \in EntryQs, v \in EntryVals : SubmitQuickEntry(d, q, v)
  \/ ToggleAudit
  \/ \E i \in 1..Len(run.df.cols) : SelectMed(i)
  \/ Rerender

Spec == Init /\ [][Next]_vars

(***************************************************************************)
(* Properties.                                                             *)
(***************************************************************************)
RawTable == uploaded_file.table

\* the measurement column of the last run (defined once the run is Rendered)
Med == Column(run.df, run.col_med)

NumRows(cells) == {i \in 1..Len(cells) : cells[i].k = "num"}

IsZero(r) == r.k = "num" /\ r.num = 0

\* the fraction r is the number a
IsNumber(r, a) == r.k = "num" /\ r.den # 0 /\ r.num = a * r.den

FilledCells(row) == {row[j] : j \in {j \in 1..Len(row) : row[j].k # "nan"}}

FilledCount(row) == Cardinality({j \in 1..Len(row) : row[j].k # "nan"})

\* C1: whenever a run has built the reconciled table, it is the uploaded
\* table's rows in their order (under the same column labels) followed by
\* one row per submitted quick entry, in submission order, each holding
\* exactly that entry's three fields; with no entry it is the uploaded table.
C1_ReconciledIsRawThenEntries ==
  Rendered(run) =>
    /\ Len(run.df.rows) = Len(RawTable.rows) + Len(extra_data)
    /\ SubSeq(run.df.cols, 1, Len(RawTable.cols)) = RawTable.cols
    /\ \A i \in 1..Len(RawTable.rows) :
          SubSeq(run.df.rows[i], 1, Len(RawTable.cols)) = RawTable.rows[i]
    /\ \A k \in 1..Len(extra_data) :
          LET row == run.df.rows[Len(RawTable.rows) + k]
          IN /\ FilledCount(row) = 3
             /\ FilledCells(row) = { Str(extra_data[k].Data),
                                     Num(extra_data[k].Medicao),
                                     Num(extra_data[k].Valor) }
    /\ (extra_data = <<>> => run.df = RawTable)

C1_Witness ==
  /\ Rendered(run)
  /\ Len(RawTable.rows) = 2
  /\ Len(extra_data) = 2
  /\ extra_data[1].Medicao # extra_data[2].Medicao

C3_ColumnBoundToOneRole ==
  Rendered(run) =>
    \A a, b \in {"data", "medicao", "valor"} :
       a # b /\ run.mapping[a] # None => run.mapping[a] # run.mapping[b]

\* C4 (as claimed): with a table loaded and entries pending, the run builds
\* the merged table, the inference on it binds each role to the column the
\* entries' field was written into, and every entry's quantity is in the
\* Quantity column the audit and KPIs use by default.
C4_QuickEntryNeverLost ==
  uploaded_file.kind = "ok" /\ extra_data # <<>> =>
    /\ Rendered(run)
    /\ run.mapping["data"] # None
    /\ run.mapping["medicao"] # None
    /\ run.mapping["valor"] # None
    /\ \A k \in 1..Len(extra_data) :
         LET i == Len(RawTable.rows) + k
         IN /\ Column(run.df, run.mapping["data"])[i] = Str(extra_data[k].Data)
            /\ Column(run.df, run.mapping["medicao"])[i] = Num(extra_data[k].Medicao)
            /\ Column(run.df, run.mapping["valor"])[i] = Num(extra_data[k].Valor)
            /\ ColumnAt(run.df.rows, run.med_default)[i] = Num(extra_data[k].Medicao)

\* C5 (as claimed): without an override, a role the inference left unmapped
\* has no column, and the totals that depend on it are not taken from
\* another column.
C5_UnmappedRoleStaysAbsent ==
  Rendered(run) /\ run.sel = 0 =>
    /\ (run.mapping["medicao"] = None => run.col_med = None)
    /\ (run.mapping["valor"] = None => run.col_val = None)

\* C6 (as claimed): for every table that loaded, the run reaches its end.
C6_PassCompletes ==
  uploaded_file.kind = "ok" => run.stage = "done"

\* C7: the delta shown is (last - secondToLast) / secondToLast * 100 over the
\* last two rows of the reconciled table, quick entries being the last rows;
\* it is 0 with fewer than 2 rows or a second-to-last quantity of 0, and 25
\* for a column ending 80, 100.
C7_LastPeriodDelta ==
  HasKpi(run) =>
    /\ (Len(Med) < 2 => IsZero(run.delta))
    /\ (Len(Med) >= 2 /\ Med[Len(Med) - 1] = Num(0) => IsZero(run.delta))
    /\ (Len(Med) >= 2 /\ Med[Len(Med)].k = "num" /\ Med[Len(Med) - 1].k = "num"
          /\ Med[Len(Med) - 1].n # 0 =>
             /\ run.delta.k = "num"
             /\ run.delta.den # 0
             /\ run.delta.num * Med[Len(Med) - 1].n
                  = (Med[Len(Med)].n - Med[Len(Med) - 1].n) * 100 * run.delta.den)
    /\ (Len(Med) >= 2 /\ Med[Len(Med)] = Num(100) /\ Med[Len(Med) - 1] = Num(80)
          => IsNumber(run.delta, 25))
    /\ (extra_data # <<>> /\ run.sel = 0 =>
          Med[Len(Med)] = Num(extra_data[Len(extra_data)].Medicao))

C7_Witness ==
  /\ HasKpi(run)
  /\ extra_data # <<>>
  /\ Len(RawTable.rows) = 1
  /\ IsNumber(run.delta, 25)

\* n * (x - mean) > 0 and (x - mean)^2 > (a/b)^2 * (sample variance), with the
\* variance from the sum of squares SS: (n * SS - S^2) / (n * (n - 1))
ExceedsMeanPlus(cells, x, a, b) ==
  LET n == Cardinality(NumRows(cells))
      S == SumNum(cells)
      SS == SumNum([i \in 1..Len(cells) |-> Times(cells[i], cells[i].n)])
  IN /\ n >= 2
     /\ n * x > S
     /\ b * b * (n * x - S) * (n * x - S) * (n - 1) > a * a * n * (n * SS - S * S)

OutlierFindings == SelectSeq(run.anomalies, LAMBDA f : f.kind = "StatisticalOutlier")

NegativeFindings == SelectSeq(run.anomalies, LAMBDA f : f.kind = "NegativeValue")

\* C8 (as claimed): with the audit on, the rows flagged are exactly those
\* above mean + 2.5 standard deviations.
C8_OutlierThreshold25 ==
  HasKpi(run) /\ run.audited =>
    run.outliers = {i \in NumRows(Med) : ExceedsMeanPlus(Med, Med[i].n, 5, 2)}

\* C8 (amended): with the audit on, the rows flagged are exactly those above
\* mean + 2 sample standard deviations: none for 2, 3, 3, 100, the row with
\* 300 for 2, 3, 3, 3, 3, 3, 3, 300, none with fewer than 2 values; the
\* finding carries their number.
C8_OutlierThreshold2 ==
  HasKpi(run) /\ run.audited =>
    /\ run.outliers = {i \in NumRows(Med) : ExceedsMeanPlus(Med, Med[i].n, 2, 1)}
    /\ (Med = NumCells(<<2, 3, 3, 100>>) => run.outliers = {})
    /\ (Med = NumCells(<<2, 3, 3, 3, 3, 3, 3, 300>>) => run.outliers = {8})
    /\ (Cardinality(NumRows(Med)) < 2 => run.outliers = {})
    /\ IF run.outliers = {} THEN OutlierFindings = <<>>
       ELSE OutlierFindings
              = << [kind |-> "StatisticalOutlier", count |-> Cardinality(run.outliers)] >>

C8_Witness ==
  /\ HasKpi(run)
  /\ run.audited
  /\ Med = NumCells(<<2, 3, 3, 3, 3, 3, 3, 300>>)
  /\ run.outliers = {8}

\* C9: with the audit on, the findings hold one NegativeValue finding
\* counting the rows whose quantity is below zero (count 1 for exactly one
\* such row) and none when no quantity is negative, whether or not an
\* outlier finding is reported as well.
C9_NegativeFinding ==
  HasKpi(run) /\ run.audited =>
    LET neg == {i \in 1..Len(Med) : Med[i].k = "num" /\ Med[i].n < 0}
    IN /\ (neg = {} => NegativeFindings = <<>>)
       /\ (neg # {} =>
             NegativeFindings = << [kind |-> "NegativeValue", count |-> Cardinality(neg)] >>)
       /\ (Cardinality(neg) = 1 =>
             /\ Len(NegativeFindings) = 1
             /\ NegativeFindings[1].count = 1)

C9_Witness ==
  /\ HasKpi(run)
  /\ run.audited
  /\ Cardinality({i \in 1..Len(Med) : Med[i].k = "num" /\ Med[i].n < 0}) = 1
  /\ OutlierFindings # <<>>
  /\ Len(NegativeFindings) = 1

\* C10: a step that is an upload, a removal, an audit toggle, a column
\* choice or a plain re-run leaves the pending entries as they are; a step
\* that changes them is a form submission and extends them by one record at
\* the end.
C10_PendingAppendOnly ==
  [][ /\ ( \/ \E file \in Files : Upload(file)
           \/ RemoveFile
           \/ ToggleAudit
           \/ \E i \in 1..Len(run.df.cols) : SelectMed(i)
           \/ Rerender ) => extra_data' = extra_data
      /\ extra_data' # extra_data =>
           /\ \E d \in EntryDates, q \in EntryQs, v \in EntryVals :
                 SubmitQuickEntry(d, q, v)
           /\ Len(extra_data') = Len(extra_data) + 1
           /\ SubSeq(extra_data', 1, Len(extra_data)) = extra_data ]_vars

\* two entries were submitted and are still pending after the file was removed
C10_Witness ==
  /\ uploaded_file.kind = "none"
  /\ Len(extra_data) = 2
  /\ extra_data[1] # extra_data[2]

====
